---- MODULE Spec2Model ----
(***************************************************************************)
(* State-machine model of the SLURM orchestration of the DWI preprocessing *)
(* pipeline: dti_processing.py (main, process_subject) and dti_utils.py    *)
(* (discovery, staging, submission, manifest).                             *)
(*                                                                         *)
(* The file systems are modelled by what the code tests and changes:       *)
(*   - the BIDS catalog (kind of every entry and of every input path),     *)
(*   - SHARED_OUTPUT_DIR (kind of every subject's final output),           *)
(*   - OUTPUT_DIR (subject folders, temp_BIDS, status/<sub>.done,          *)
(*     dataset_description_<date>.json),                                   *)
(*   - the submission directory (subjects_to_process_<ts>.txt and the two  *)
(*     submit_*_<ts>.sh descriptors).                                      *)
(* The scheduler is modelled by the array elements and the dependent       *)
(* report job it dispatches.                                               *)
(***************************************************************************)
EXTENDS Integers, Sequences, FiniteSets, TLC

VARIABLES
    bidsLocal,    \* BIDS_DIR exists on the executing host (os.path.exists)
    listing,      \* enumeration order of the entries of BIDS_DIR
    entryKind,    \* entry -> "dir" | "file"
    inputs,       \* subject -> input file -> "absent" | "file" | "dir"
    sharedOut,    \* subject -> kind of SHARED_OUTPUT_DIR/<sub>_<ses>/dti_fit_data_FA.nii.gz
    now,          \* wall clock, in seconds
    outputRoot,   \* OUTPUT_DIR exists
    folder,       \* subject -> OUTPUT_DIR/<sub>_<ses> exists
    tempDir,      \* subject -> <folder>/temp_BIDS exists
    staged,       \* subject -> input files present in temp_BIDS
    produced,     \* subject -> <folder>/dti_fit_data_FA.nii.gz exists
    statusDir,    \* OUTPUT_DIR/status exists
    markers,      \* subject -> content of status/<sub>.done, or NoMarker
    manifest,     \* content of dataset_description_<date>.json, or NoManifest
    listFile,     \* timestamp -> lines of subjects_to_process_<ts>.txt, or NoFile
    arrayScript,  \* timestamp -> submit_array_<ts>.sh, or NoFile
    reportScript, \* timestamp -> submit_report_<ts>.sh, or NoFile
    runs,         \* submit-mode invocation -> what it has done
    nextJob,      \* next job identifier the scheduler hands out
    elem,         \* run -> array index -> state of that array element
    report,       \* run -> state of the dependent report job
    last          \* observable outcome of the handler that ran last

vars ==
    << bidsLocal, listing, entryKind, inputs, sharedOut, now, outputRoot, folder,
       tempDir, staged, produced, statusDir, markers, manifest, listFile,
       arrayScript, reportScript, runs, nextJob, elem, report, last >>

catalogVars == << bidsLocal, listing, entryKind, inputs, sharedOut >>

outputVars == << outputRoot, folder, tempDir, staged, produced, statusDir, markers, manifest >>

submitVars == << listFile, arrayScript, reportScript, runs, nextJob >>

jobVars == << elem, report >>

-----------------------------------------------------------------------------
(* Identifiers and paths.  A name is a sequence of characters; the prefix  *)
(* "sub-" counts as one character.  Subject labels are alphanumeric.       *)

X == <<"sub-", "1">>

Y == <<"sub-", "2">>

Other == <<"l", "o", "g", "s">>

Items == {X, Y}

Entries == Items \cup {Other}

NoItem == <<>>

\* the five inputs discovery requires (dti_ap, dti_pa, fmap_ap, fmap_pa, t1w)
RequiredInputs == {"dwi_ap", "dwi_pa", "fmap_ap", "fmap_pa", "t1w"}

\* the gradient tables process_subject stages as well
GradientInputs == {"bval_ap", "bval_pa", "bvec_ap", "bvec_pa"}

StagedInputs == RequiredInputs \cup GradientInputs

Kinds == {"absent", "file", "dir"}

\* os.path.exists
PathExists(kind) == kind # "absent"

\* [ -f path ]
IsRegularFile(kind) == kind = "file"

\* d.startswith('sub-')
StartsWithSub(d) == Len(d) > 0 /\ d[1] = "sub-"

REMOTE_HOST == "oriol@161.116.166.234"

FORCE_REMOTE == TRUE

MAX_PARALLEL_JOBS == 9

-----------------------------------------------------------------------------
(* Discovery: dti_utils.get_subjects_to_process and                        *)
(* dti_utils.get_subjects_from_remote.                                     *)

\* all_subjects: the listing filtered by name and os.path.isdir
LocalCandidates ==
    SelectSeq(listing, LAMBDA d : StartsWithSub(d) /\ entryKind[d] = "dir")

\* missing_inputs, appended in the order of the five tests
MissingInputs(subject) ==
    LET miss(f, label) == IF ~PathExists(inputs[subject][f]) THEN <<label>> ELSE <<>>
    IN  miss("dwi_ap", "DWI AP") \o miss("dwi_pa", "DWI PA")
          \o miss("fmap_ap", "FMAP AP") \o miss("fmap_pa", "FMAP PA")
          \o miss("t1w", "T1w")

\* if len(missing_inputs) == 5: continue
SkipMissingAll(missing_inputs) == Len(missing_inputs) = 5

SkipMissingSome_m(missing_inputs) == Len(missing_inputs) < 5 /\ Len(missing_inputs) > 1

\* if len(missing_inputs) < 5 and len(missing_inputs) > 0: continue
SkipMissingSome(missing_inputs) == Len(missing_inputs) < 5 /\ Len(missing_inputs) > 0

SkipOutputExists_m(subject) == folder[subject]

\* if os.path.exists(final_output): continue
SkipOutputExists(subject) == PathExists(sharedOut[subject])

\* the branch the local loop takes for one subject, named as the remote
\* scan names its lines
LocalClass(subject) ==
    LET missing_inputs == MissingInputs(subject)
    IN  IF SkipMissingAll(missing_inputs) THEN "SKIP_ALL"
        ELSE IF SkipMissingSome(missing_inputs) THEN "MISSING"
        ELSE IF SkipOutputExists(subject) THEN "EXIST"
        ELSE "FOUND"

RECURSIVE ScanLocal(_, _)
\* the loop over all_subjects; acc is subjects_to_process
ScanLocal(all_subjects, acc) ==
    IF all_subjects = <<>> THEN acc
    ELSE LET subject == Head(all_subjects)
             rest == Tail(all_subjects)
             missing_inputs == MissingInputs(subject)
         IN  IF SkipMissingAll(missing_inputs) THEN ScanLocal(rest, acc)
             ELSE IF SkipMissingSome(missing_inputs) THEN ScanLocal(rest, acc)
             ELSE IF SkipOutputExists(subject) THEN ScanLocal(rest, acc)
             ELSE ScanLocal(rest, Append(acc, subject))

\* the shell expands {bids_dir}/sub-* in sorted order
GlobOrder == <<X, Y>>

\* for s_dir in sub-*; [ -d "$s_dir" ] || continue
RemoteCandidates ==
    SelectSeq(GlobOrder, LAMBDA d :
        (\E i \in 1..Len(listing) : listing[i] = d) /\ entryKind[d] = "dir")

\* missing_count after the five [ ! -f ] tests
RemoteMissingCount(subject) ==
    Cardinality({f \in RequiredInputs : ~IsRegularFile(inputs[subject][f])})

\* the line the remote loop echoes for one subject
RemoteLine(subject) ==
    LET missing_count == RemoteMissingCount(subject)
    IN  IF missing_count = 0
        THEN IF ~IsRegularFile(sharedOut[subject])
             THEN <<"FOUND", subject>>
             ELSE <<"EXIST", subject>>
        ELSE IF missing_count = 5 THEN <<"SKIP_ALL", subject>>
        ELSE <<"MISSING", subject>>

RECURSIVE ParseRemote(_, _)
\* the loop over output.splitlines(): FOUND lines are appended
ParseRemote(lines, subjects) ==
    IF lines = <<>> THEN subjects
    ELSE LET line == Head(lines)
         IN  IF line[1] = "FOUND"
             THEN ParseRemote(Tail(lines), Append(subjects, line[2]))
             ELSE ParseRemote(Tail(lines), subjects)

\* get_subjects_from_remote; sshOk = FALSE is run_command raising
get_subjects_from_remote(sshOk) ==
    IF sshOk
    THEN ParseRemote([i \in 1..Len(RemoteCandidates) |-> RemoteLine(RemoteCandidates[i])], <<>>)
    ELSE <<>>

\* get_subjects_to_process(BIDS_DIR, SHARED_OUTPUT_DIR, SESSION, remote_host);
\* listOk = FALSE is os.listdir raising OSError
get_subjects_to_process(remote_host, listOk, sshOk) ==
    IF ~bidsLocal
    THEN IF remote_host # "" THEN get_subjects_from_remote(sshOk) ELSE <<>>
    ELSE IF ~listOk THEN <<>>
    ELSE ScanLocal(LocalCandidates, <<>>)

\* how the scan inside get_subjects_to_process ended: completed, or the
\* except branch that logs the error and returns []
ScanOutcome(listOk, sshOk) ==
    IF ~bidsLocal THEN (IF sshOk THEN "remote" ELSE "ssh_error")
    ELSE IF listOk THEN "local" ELSE "oserror"

-----------------------------------------------------------------------------
(* Outcome of the handler that ran last.                                   *)

NoEvent ==
    [ op |-> "none", run |-> 0, idx |-> 0, item |-> NoItem, ret |-> "none",
      exit |-> -1, stages |-> <<>>, marked |-> FALSE, subjects |-> <<>>,
      effects |-> <<>>, wrote |-> FALSE, purged |-> FALSE, file |-> "", force |-> FALSE,
      scan |-> "none", failed |-> 0, result |-> "none" ]

-----------------------------------------------------------------------------
(* Bounds and initial states.                                              *)

\* submit-mode invocations of the overlapping-runs scenarios
MaxRuns == 2

\* submit-mode invocations of the single-run scenarios
MainRuns == 1

\* last second of the wall clock
MaxTime == 1

Runs == 1..MaxRuns

Times == 0..MaxTime

Indices == 1..Cardinality(Items)

NoFile == [ exists |-> FALSE, lines |-> <<>> ]

NoArrayScript == [ exists |-> FALSE, lo |-> 0, hi |-> 0, cap |-> 0, list |-> 0, force |-> FALSE ]

NoReportScript == [ exists |-> FALSE, dep |-> "none", job |-> 0, list |-> 0 ]

NoMarker == <<>>

NoManifest == [ exists |-> FALSE, subjects |-> <<>> ]

NoTaskId == -1

IdleRun == [ pc |-> "idle", ts |-> 0, arrayId |-> 0, n |-> 0, cap |-> 0, exit |-> -1 ]

\* a submit-mode invocation that is never made
UnusedRun == [IdleRun EXCEPT !.pc = "unused"]

NoElem == [ pc |-> "none", subject |-> NoItem ]

NoReport == [ pc |-> "none", dep |-> 0, kind |-> "none", ts |-> 0, successful |-> <<>> ]

AllPresent == [f \in StagedInputs |-> "file"]

AllAbsent == [f \in StagedInputs |-> "absent"]

Without(f) == [AllPresent EXCEPT ![f] = "absent"]

\* the catalogs the orchestration is run against
MainCatalogs ==
    { [x \in Items |-> AllPresent],
      [x \in Items |-> IF x = Y THEN Without("t1w") ELSE AllPresent],
      [x \in Items |-> IF x = X THEN Without("bval_ap") ELSE AllPresent] }

InitOutput(submits) ==
    /\ now = 0
    /\ outputRoot = FALSE
    /\ folder = [x \in Items |-> FALSE]
    /\ tempDir = [x \in Items |-> FALSE]
    /\ staged = [x \in Items |-> {}]
    /\ produced = [x \in Items |-> FALSE]
    /\ statusDir = FALSE
    /\ markers = [x \in Items |-> NoMarker]
    /\ manifest = NoManifest
    /\ listFile = [t \in Times |-> NoFile]
    /\ arrayScript = [t \in Times |-> NoArrayScript]
    /\ reportScript = [t \in Times |-> NoReportScript]
    /\ runs = [r \in Runs |-> IF r <= submits THEN IdleRun ELSE UnusedRun]
    /\ nextJob = 1
    /\ elem = [r \in Runs |-> [i \in Indices |-> NoElem]]
    /\ report = [r \in Runs |-> NoReport]
    /\ last = NoEvent

Init ==
    /\ bidsLocal \in BOOLEAN
    /\ listing = <<Y, Other, X>>
    /\ entryKind = [e \in Entries |-> "dir"]
    /\ inputs \in MainCatalogs
    /\ sharedOut = [x \in Items |-> "absent"]
    /\ InitOutput(MainRuns)

-----------------------------------------------------------------------------
(* Staging: dti_utils.ensure_remote_file.                                  *)

\* the transfers that fail in one worker invocation
FetchFailures == { {}, {"dwi_ap"}, {"t1w"} }

FetchAttempted_m(localExists, force) == ~localExists

\* if force or not os.path.exists(local_path): a remote copy is attempted
FetchAttempted(localExists, force) == force \/ ~localExists

\* scp copies a regular file; a failure is logged and swallowed
ensure_remote_file(localExists, remoteKind, scpOk, force) ==
    [ copy |-> FetchAttempted(localExists, force),
      exists |-> localExists
                   \/ (FetchAttempted(localExists, force) /\ scpOk /\ IsRegularFile(remoteKind)) ]

\* the nine ensure_remote_file calls of process_subject
StageInputs(subject, lost, force) ==
    {f \in StagedInputs :
        ensure_remote_file(f \in staged[subject], inputs[subject][f], f \notin lost, force).exists}

-----------------------------------------------------------------------------
(* The stage pipeline of process_subject.                                  *)

Stages == <<"prepare_topup", "topup", "prepare_eddy", "eddy", "t1_mask", "dtifit">>

\* the input files a stage's commands read
StageReads(k) ==
    CASE k = 1 -> {"fmap_ap", "fmap_pa"}
      [] k = 3 -> {"dwi_ap", "dwi_pa", "bvec_ap", "bvec_pa", "bval_ap", "bval_pa"}
      [] k = 5 -> {"t1w"}
      [] OTHER -> {}

\* run_command raises when a command of stage k exits nonzero: a tool
\* failure (toolFail = k) or an input that is not there
StageRaises(k, present, toolFail) == toolFail = k \/ ~(StageReads(k) \subseteq present)

RunStages_m(k, present, toolFail, invoked) ==
    [ invoked |-> Stages,
      failed |-> IF \E j \in k..Len(Stages) : StageRaises(j, present, toolFail)
                 THEN CHOOSE j \in k..Len(Stages) :
                        /\ StageRaises(j, present, toolFail)
                        /\ \A h \in k..(j - 1) : ~StageRaises(h, present, toolFail)
                 ELSE 0 ]

RECURSIVE RunStages(_, _, _, _)
\* stages k.. in order; stops at the first that raises
RunStages(k, present, toolFail, invoked) ==
    IF k > Len(Stages) THEN [ invoked |-> invoked, failed |-> 0 ]
    ELSE IF StageRaises(k, present, toolFail)
         THEN [ invoked |-> Append(invoked, Stages[k]), failed |-> k ]
         ELSE RunStages(k + 1, present, toolFail, Append(invoked, Stages[k]))

InputCheckFails_m(present) == RequiredInputs \cap present = {}

\* if not os.path.exists(dti_ap_file): return False
InputCheckFails(present) == "dwi_ap" \notin present

\* the try block of process_subject after staging: what it returns
RunPipeline(present, toolFail) ==
    IF InputCheckFails(present)
    THEN [ ret |-> FALSE, invoked |-> <<>>, failed |-> 0 ]
    ELSE LET r == RunStages(1, present, toolFail, <<>>)
         IN  [ ret |-> r.failed = 0, invoked |-> r.invoked, failed |-> r.failed ]

TempInputDir_m(subject) == Items

\* temp_input_dir = os.path.join(folder, "temp_BIDS"), folder the subject's
\* own output folder: the subjects whose staging lies under that path
TempInputDir(subject) == {subject}

\* the value process_subject hands back to main: return True / return False
Returned(ret) == IF ret THEN "True" ELSE "False"

\* finally: temp_input_dir and os.path.exists(temp_input_dir) -> shutil.rmtree
CleanupRuns(remote_host, tempExists) == remote_host # "" /\ tempExists

WritesMarker_m(success) == TRUE

WriteMarker_m(old, content) == old \o content

\* with open(<marker_dir>/<subject>.done, 'w') as f: f.write(...): the file
\* is created or truncated and holds what this call writes
WriteMarker(old, content) == content

\* if success: the worker writes status/<subject>.done
WritesMarker(success) == success

WorkerExit_m(success) == IF success THEN 0 ELSE 1

\* after process_subject returned, main writes the marker or not and ends
\* without sys.exit: the exit status is 0 for either value of success
WorkerExit(success) == 0

-----------------------------------------------------------------------------
(* Worker mode of main.                                                    *)

Whitespace == {" ", "\n"}

RECURSIVE StripLeft(_)
StripLeft(line) ==
    IF line # <<>> /\ Head(line) \in Whitespace THEN StripLeft(Tail(line)) ELSE line

RECURSIVE StripRight(_)
StripRight(line) ==
    IF line # <<>> /\ line[Len(line)] \in Whitespace
    THEN StripRight(SubSeq(line, 1, Len(line) - 1)) ELSE line

\* str.strip
Strip(line) == StripRight(StripLeft(line))

\* f.write(f"{sub}\n") for every subject
WriteSubjects(subjects) == [i \in 1..Len(subjects) |-> Append(subjects[i], "\n")]

\* [line.strip() for line in f if line.strip()]
ReadSubjects(lines) ==
    LET kept == SelectSeq(lines, LAMBDA l : Strip(l) # <<>>)
    IN  [i \in 1..Len(kept) |-> Strip(kept[i])]

\* 0 <= idx < len(subjects), idx = int(task_id) - 1
InRange(task_id, subjects) == 0 <= task_id - 1 /\ task_id - 1 < Len(subjects)

SubjectAt_m(subjects, task_id) == subjects[Len(subjects) - task_id + 1]

\* subject = subjects[idx], idx = int(task_id) - 1 (the sequence is 1-based here)
SubjectAt(subjects, task_id) == subjects[(task_id - 1) + 1]

\* what the worker entry decides before process_subject is called
WorkerEntry(hasList, ts, task_id) ==
    IF ~hasList THEN [ exit |-> 1, subject |-> NoItem ]
    ELSE IF task_id = NoTaskId THEN [ exit |-> 1, subject |-> NoItem ]
    ELSE IF ~listFile[ts].exists THEN [ exit |-> 1, subject |-> NoItem ]
    ELSE LET subjects == ReadSubjects(listFile[ts].lines)
         IN  IF InRange(task_id, subjects)
             THEN [ exit |-> -1, subject |-> SubjectAt(subjects, task_id) ]
             ELSE [ exit |-> 1, subject |-> NoItem ]

\* array elements of run r the scheduler is running
Running(r) == {i \in Indices : elem[r][i].pc = "running"}

Terminal(pc) == pc \in {"ok", "failed", "killed"}

\* the scheduler starts array element i of run r: main in worker mode up to
\* and including the staging of process_subject
WorkerStart(r, i) ==
    /\ elem[r][i].pc = "pending"
    /\ Cardinality(Running(r)) < runs[r].cap
    /\ LET e == WorkerEntry(TRUE, runs[r].ts, i)
           s == e.subject
       IN  IF e.exit # -1
           THEN /\ elem' = [elem EXCEPT ![r][i] = [pc |-> "failed", subject |-> NoItem]]
                /\ outputRoot' = TRUE
                /\ last' = [NoEvent EXCEPT !.op = "worker", !.run = r, !.idx = i,
                                           !.ret = "config", !.exit = 1]
                /\ UNCHANGED << folder, tempDir, staged >>
           ELSE \E lost \in FetchFailures :
                /\ elem' = [elem EXCEPT ![r][i] = [pc |-> "running", subject |-> s]]
                /\ outputRoot' = TRUE
                /\ folder' = [folder EXCEPT ![s] = TRUE]
                /\ tempDir' = [tempDir EXCEPT ![s] = IF REMOTE_HOST # "" THEN TRUE ELSE @]
                /\ staged' = [staged EXCEPT
                                ![s] = IF REMOTE_HOST # ""
                                       THEN StageInputs(s, lost, FORCE_REMOTE) ELSE @]
                /\ last' = [NoEvent EXCEPT !.op = "start", !.run = r, !.idx = i, !.item = s]
    /\ UNCHANGED << catalogVars, now, produced, statusDir, markers, manifest,
                    submitVars, report >>

\* the rest of the invocation: input check, stages, cleanup, marker, exit
WorkerRun(r, i) ==
    /\ elem[r][i].pc = "running"
    /\ \E toolFail \in 0..Len(Stages) :
         LET s == elem[r][i].subject
             present == IF REMOTE_HOST # "" THEN staged[s]
                        ELSE {f \in StagedInputs : PathExists(inputs[s][f])}
             p == RunPipeline(present, toolFail)
             cleanup == CleanupRuns(REMOTE_HOST, tempDir[s])
             mark == WritesMarker(p.ret)
         IN  /\ produced' = [produced EXCEPT
                               ![s] = @ \/ (Len(p.invoked) = Len(Stages) /\ p.failed = 0)]
             /\ tempDir' = [x \in Items |->
                              IF cleanup /\ x \in TempInputDir(s) THEN FALSE ELSE tempDir[x]]
             /\ staged' = [x \in Items |->
                             IF cleanup /\ x \in TempInputDir(s) THEN {} ELSE staged[x]]
             /\ statusDir' = (statusDir \/ mark)
             /\ markers' = [markers EXCEPT ![s] = IF mark THEN WriteMarker(@, <<r, i>>) ELSE @]
             /\ elem' = [elem EXCEPT
                           ![r][i].pc = IF WorkerExit(p.ret) = 0 THEN "ok" ELSE "failed"]
             /\ last' = [NoEvent EXCEPT !.op = "worker", !.run = r, !.idx = i, !.item = s,
                           !.ret = (IF p.ret THEN "success"
                                    ELSE IF p.invoked = <<>> THEN "missing" ELSE "stage"),
                           !.exit = WorkerExit(p.ret), !.stages = p.invoked, !.marked = mark,
                           !.failed = p.failed, !.result = Returned(p.ret)]
    /\ UNCHANGED << catalogVars, now, outputRoot, folder, manifest, submitVars, report >>

\* the scheduler terminates a running element (scancel, time limit): no
\* handler is installed, so the process ends where it is
WorkerKill(r, i) ==
    /\ elem[r][i].pc = "running"
    /\ elem' = [elem EXCEPT ![r][i].pc = "killed"]
    /\ last' = [NoEvent EXCEPT !.op = "worker", !.run = r, !.idx = i,
                               !.item = elem[r][i].subject, !.ret = "killed", !.exit = 143]
    /\ UNCHANGED << catalogVars, now, outputVars, submitVars, report >>

\* no job is queued or running
Quiescent ==
    /\ \A r \in Runs, i \in Indices : elem[r][i].pc \notin {"pending", "running"}
    /\ \A r \in Runs : report[r].pc \notin {"pending", "scanned"}

\* worker mode invoked with arguments that end it before any subject is
\* chosen: no --subjects_list, no SLURM_ARRAY_TASK_ID, index out of range
WorkerRejected(hasList, ts, task_id) ==
    /\ Quiescent
    /\ WorkerEntry(hasList, ts, task_id).exit = 1
    /\ outputRoot' = TRUE
    /\ last' = [NoEvent EXCEPT !.op = "rejected", !.idx = task_id, !.ret = "config",
                               !.exit = 1,
                               !.subjects = IF hasList /\ listFile[ts].exists
                                            THEN ReadSubjects(listFile[ts].lines) ELSE <<>>]
    /\ UNCHANGED << catalogVars, now, folder, tempDir, staged, produced, statusDir,
                    markers, manifest, submitVars, jobVars >>

-----------------------------------------------------------------------------
(* Submit mode of main and dti_utils.submit_slurm_workflow.                *)

\* stdout of a successful sbatch, split at white space
SbatchOutput(id) == <<"Submitted", "batch", "job", id>>

\* what sbatch prints for each outcome of the array submission
ArrayStdout(sbatchArray, id) == IF sbatchArray = "ok" THEN SbatchOutput(id) ELSE <<>>

\* job_id = output.strip().split()[-1]; 0 stands for no value
ParseJobId(tokens) == IF tokens = <<>> THEN 0 ELSE tokens[Len(tokens)]

\* #SBATCH --array=1-{len(subjects)}%{max_parallel_jobs} and the worker command
ArrayDescriptor(subjects, ts, force) ==
    [ exists |-> TRUE, lo |-> 1, hi |-> Len(subjects), cap |-> MAX_PARALLEL_JOBS,
      list |-> ts, force |-> force ]

ReportDependency_m == "afterok"

\* the dependency type of #SBATCH --dependency=afterany:{job_id}
ReportDependency == "afterany"

ReportDescriptor(job_id, ts) ==
    [ exists |-> TRUE, dep |-> ReportDependency, job |-> job_id, list |-> ts ]

AfterArraySubmission_m(sbatchArray, tokens) == <<"write_report", "sbatch_report">>

\* the try around the array submission: sbatch raising (CalledProcessError)
\* or split()[-1] raising (IndexError) returns; otherwise the report
\* descriptor is written and submitted
AfterArraySubmission(sbatchArray, tokens) ==
    IF sbatchArray # "error" /\ tokens # <<>>
    THEN <<"write_report", "sbatch_report">> ELSE <<>>

\* main without --worker and --report
Submit(r) ==
    /\ runs[r].pc = "idle"
    /\ \A q \in Runs : q < r => runs[q].pc # "idle"
    /\ \E elapsed \in 0..(MaxTime - now), listOk \in BOOLEAN, sshOk \in BOOLEAN,
          sbatchArray \in {"error", "empty", "ok"}, sbatchReport \in {"error", "ok"} :
         LET subjects == get_subjects_to_process(REMOTE_HOST, listOk, sshOk)
             ts == now + elapsed
             force == FORCE_REMOTE
             queued == sbatchArray \in {"empty", "ok"}
             tokens == ArrayStdout(sbatchArray, nextJob)
             after == AfterArraySubmission(sbatchArray, tokens)
             desc == ArrayDescriptor(subjects, ts, force)
             reported == after # <<>> /\ sbatchReport = "ok"
         IN  /\ outputRoot' = TRUE
             /\ now' = ts
             /\ IF subjects = <<>>
                THEN /\ runs' = [runs EXCEPT ![r] = [IdleRun EXCEPT !.pc = "done", !.exit = 0]]
                     /\ last' = [NoEvent EXCEPT !.op = "submit", !.run = r, !.ret = "nothing",
                                                !.exit = 0,
                                                !.scan = ScanOutcome(listOk, sshOk)]
                     /\ UNCHANGED << listFile, arrayScript, reportScript, nextJob, jobVars >>
                ELSE /\ listFile' = [listFile EXCEPT
                                       ![ts] = [exists |-> TRUE, lines |-> WriteSubjects(subjects)]]
                     /\ arrayScript' = [arrayScript EXCEPT
                                          ![ts] = desc]
                     /\ reportScript' =
                          IF after # <<>>
                          THEN [reportScript EXCEPT
                                  ![ts] = ReportDescriptor(ParseJobId(tokens), ts)]
                          ELSE reportScript
                     /\ runs' = [runs EXCEPT
                                   ![r] = [ pc |-> "done", ts |-> ts,
                                            arrayId |-> IF queued THEN nextJob ELSE 0,
                                            n |-> IF queued THEN desc.hi ELSE 0,
                                            cap |-> IF queued THEN desc.cap ELSE 0,
                                            exit |-> IF after # <<>> /\ ~reported
                                                     THEN 1 ELSE 0 ]]
                     /\ nextJob' = nextJob + (IF queued THEN 1 ELSE 0)
                                           + (IF reported THEN 1 ELSE 0)
                     /\ elem' = [elem EXCEPT
                                   ![r] = [i \in Indices |->
                                             IF queued /\ desc.lo <= i /\ i <= desc.hi
                                             THEN [pc |-> "pending", subject |-> NoItem]
                                             ELSE NoElem]]
                     /\ report' = [report EXCEPT
                                     ![r] = IF reported
                                            THEN [ pc |-> "pending", dep |-> ParseJobId(tokens),
                                                   kind |-> ReportDependency, ts |-> ts,
                                                   successful |-> <<>> ]
                                            ELSE NoReport]
                     /\ last' = [NoEvent EXCEPT
                                   !.op = "submit", !.run = r, !.subjects = subjects,
                                   !.scan = ScanOutcome(listOk, sshOk),
                                   !.ret = sbatchArray,
                                   !.exit = IF after # <<>> /\ ~reported THEN 1 ELSE 0,
                                   !.effects = <<"write_list", "write_array", "sbatch_array">>
                                                 \o after]
    /\ UNCHANGED << catalogVars, folder, tempDir, staged, produced, statusDir,
                    markers, manifest >>

-----------------------------------------------------------------------------
(* Report mode of main and dti_utils.create_dataset_description.           *)

\* the array elements of the job a dependency names
DependedOn(job) == {<<q, i>> \in Runs \X Indices : runs[q].arrayId = job /\ i <= runs[q].n}

\* when the scheduler may start a job that depends on array job `job`
DependencySatisfied(kind, job) ==
    CASE kind = "afterany" -> \A e \in DependedOn(job) : Terminal(elem[e[1]][e[2]].pc)
      [] kind = "afterok" -> \A e \in DependedOn(job) : elem[e[1]][e[2]].pc = "ok"
      [] kind = "after" -> \A e \in DependedOn(job) : elem[e[1]][e[2]].pc # "pending"
      [] OTHER -> FALSE

\* parameters of def create_dataset_description
CallParameters == 3

CallArguments_m == CallParameters

\* positional arguments of the call in main
CallArguments == 4

\* for sub in subjects: if os.path.exists(<marker_dir>/<sub>.done)
SuccessfulSubjects(subjects) ==
    SelectSeq(subjects, LAMBDA sub : statusDir /\ markers[sub] # NoMarker)

\* the scheduler starts the report job of run r: main in report mode up to
\* the query of the markers
ReportStart(r) ==
    /\ report[r].pc = "pending"
    /\ DependencySatisfied(report[r].kind, report[r].dep)
    /\ outputRoot' = TRUE
    /\ IF ~listFile[report[r].ts].exists
       THEN /\ report' = [report EXCEPT ![r].pc = "failed"]
            /\ last' = [NoEvent EXCEPT !.op = "report", !.run = r, !.ret = "unreadable",
                                       !.exit = 1]
       ELSE LET subjects == ReadSubjects(listFile[report[r].ts].lines)
            IN  /\ report' = [report EXCEPT ![r].pc = "scanned",
                                            ![r].successful = SuccessfulSubjects(subjects)]
                /\ last' = [NoEvent EXCEPT !.op = "scan", !.run = r, !.subjects = subjects]
    /\ UNCHANGED << catalogVars, now, folder, tempDir, staged, produced, statusDir,
                    markers, manifest, submitVars, elem >>

\* the rest of report mode: the manifest, the purge, the exit
ReportFinish(r) ==
    /\ report[r].pc = "scanned"
    /\ \E writeOk \in BOOLEAN :
         LET raised == CallArguments # CallParameters
             wrote == ~raised /\ writeOk
             purged == ~raised /\ statusDir
             ts == report[r].ts
         IN  /\ manifest' = IF wrote
                            THEN [exists |-> TRUE, subjects |-> report[r].successful]
                            ELSE manifest
             /\ statusDir' = IF purged THEN FALSE ELSE statusDir
             /\ markers' = IF purged THEN [x \in Items |-> NoMarker] ELSE markers
             /\ listFile' = IF purged THEN [listFile EXCEPT ![ts] = NoFile] ELSE listFile
             /\ arrayScript' = IF purged THEN [arrayScript EXCEPT ![ts] = NoArrayScript]
                               ELSE arrayScript
             /\ reportScript' = IF purged THEN [reportScript EXCEPT ![ts] = NoReportScript]
                                ELSE reportScript
             /\ report' = [report EXCEPT ![r].pc = IF purged THEN "ok" ELSE "failed"]
             /\ last' = [NoEvent EXCEPT
                           !.op = "report", !.run = r,
                           !.subjects = report[r].successful,
                           !.ret = IF raised THEN "TypeError"
                                   ELSE IF ~purged THEN "FileNotFoundError" ELSE "ok",
                           !.exit = IF purged THEN 0 ELSE 1,
                           !.wrote = wrote, !.purged = purged]
    /\ UNCHANGED << catalogVars, now, outputRoot, folder, tempDir, staged, produced,
                    runs, nextJob, elem >>

\* report mode invoked without --subjects_list: main has created OUTPUT_DIR
\* by the time it tests the argument and exits 1
ReportRejected ==
    /\ Quiescent
    /\ outputRoot' = TRUE
    /\ last' = [NoEvent EXCEPT !.op = "rejected_report", !.ret = "config", !.exit = 1]
    /\ UNCHANGED << catalogVars, now, folder, tempDir, staged, produced, statusDir,
                    markers, manifest, submitVars, jobVars >>

-----------------------------------------------------------------------------
(* Specifications.                                                         *)

Next ==
    \/ \E r \in Runs : Submit(r)
    \/ \E r \in Runs, i \in Indices : WorkerStart(r, i)
    \/ \E r \in Runs, i \in Indices : WorkerRun(r, i)
    \/ \E r \in Runs, i \in Indices : WorkerKill(r, i)
    \/ \E hasList \in BOOLEAN, ts \in Times, task_id \in {NoTaskId, 0, Cardinality(Items) + 1} :
         WorkerRejected(hasList, ts, task_id)
    \/ ReportRejected
    \/ \E r \in Runs : ReportStart(r)
    \/ \E r \in Runs : ReportFinish(r)

Spec == Init /\ [][Next]_vars

-----------------------------------------------------------------------------
(* Several submit-mode invocations against a catalog with one eligible     *)
(* subject: their array elements and report jobs overlap.                  *)

InitOverlap ==
    /\ bidsLocal = FALSE
    /\ listing = <<Y, Other, X>>
    /\ entryKind = [e \in Entries |-> "dir"]
    /\ inputs = [x \in Items |-> IF x = Y THEN Without("t1w") ELSE AllPresent]
    /\ sharedOut = [x \in Items |-> "absent"]
    /\ InitOutput(MaxRuns)

SpecOverlap == InitOverlap /\ [][Next]_vars

-----------------------------------------------------------------------------
(* Staging on its own: calls of ensure_remote_file for the files of one    *)
(* subject, with either value of force.                                    *)

\* ensure_remote_file calls made in a row
MaxFetches == 2

\* the files the calls are made for
FetchedFiles == {"dwi_ap", "t1w", "bval_ap"}

InitStaging ==
    /\ bidsLocal = FALSE
    /\ listing = <<X>>
    /\ entryKind = [e \in Entries |-> "dir"]
    /\ \E ix \in {AllPresent, Without("t1w"), [AllPresent EXCEPT !["dwi_ap"] = "dir"]} :
         inputs = [x \in Items |-> IF x = X THEN ix ELSE AllAbsent]
    /\ sharedOut = [x \in Items |-> "absent"]
    /\ now = 0
    /\ outputRoot = TRUE
    /\ folder = [x \in Items |-> x = X]
    /\ tempDir \in {[x \in Items |-> x = X /\ b] : b \in BOOLEAN}
    /\ \E had \in SUBSET {"dwi_ap", "t1w"} :
         staged = [x \in Items |-> IF x = X /\ tempDir[X] THEN had ELSE {}]
    /\ produced = [x \in Items |-> FALSE]
    /\ statusDir = FALSE
    /\ markers = [x \in Items |-> NoMarker]
    /\ manifest = NoManifest
    /\ listFile = [t \in Times |-> NoFile]
    /\ arrayScript = [t \in Times |-> NoArrayScript]
    /\ reportScript = [t \in Times |-> NoReportScript]
    /\ runs = [r \in Runs |-> UnusedRun]
    /\ nextJob = 1
    /\ elem = [r \in Runs |-> [i \in Indices |-> NoElem]]
    /\ report = [r \in Runs |-> NoReport]
    /\ last = NoEvent

\* one call ensure_remote_file(<temp_BIDS of X>/f, remote_host, <catalog>/f, force)
Fetch(f, force, scpOk) ==
    /\ last.op \in {"none", "fetch"}
    /\ last.idx < MaxFetches
    /\ LET e == ensure_remote_file(f \in staged[X], inputs[X][f], scpOk, force)
       IN  /\ tempDir' = [tempDir EXCEPT ![X] = @ \/ e.copy]
           /\ staged' = [staged EXCEPT ![X] = IF e.exists THEN @ \cup {f} ELSE @ \ {f}]
           /\ last' = [NoEvent EXCEPT !.op = "fetch", !.idx = last.idx + 1, !.item = X,
                                      !.file = f, !.force = force,
                                      !.effects = IF e.copy THEN <<"scp">> ELSE <<>>]
    /\ UNCHANGED << catalogVars, now, outputRoot, folder, produced, statusDir, markers,
                    manifest, submitVars, jobVars >>

NextStaging == \E f \in FetchedFiles, force \in BOOLEAN, scpOk \in BOOLEAN : Fetch(f, force, scpOk)

SpecStaging == InitStaging /\ [][NextStaging]_vars

-----------------------------------------------------------------------------
(* Discovery on its own, over a wide range of catalogs.                    *)

\* the inputs of the first subject: every combination of the five
\* required inputs, the T1w path possibly a directory
WideInputs ==
    { [f \in StagedInputs |->
         IF f \in RequiredInputs THEN (IF f \in a THEN "file" ELSE "absent")
         ELSE "file"] : a \in SUBSET RequiredInputs }
    \cup { [AllPresent EXCEPT !["t1w"] = "dir"], [AllAbsent EXCEPT !["t1w"] = "dir"] }

NarrowInputs == { AllPresent, Without("t1w"), AllAbsent }

InitDiscovery ==
    /\ bidsLocal \in BOOLEAN
    /\ listing \in { <<X, Other, Y>>, <<Y, Other, X>>, <<Other, X>> }
    /\ entryKind \in { [e \in Entries |-> IF e \in files THEN "file" ELSE "dir"] :
                         files \in SUBSET Items }
    /\ \E ix \in WideInputs, iy \in NarrowInputs :
         inputs = [x \in Items |-> IF x = X THEN ix ELSE iy]
    /\ sharedOut \in [Items -> Kinds]
    /\ InitOutput(0)

\* discovery calls made in a row against one catalog
MaxCalls == 2

\* a discovery that creates the output path it tests
Discover_m ==
    /\ last.op \in {"none", "discover"}
    /\ last.idx < MaxCalls
    /\ \E listOk \in BOOLEAN, sshOk \in BOOLEAN :
         LET subjects == get_subjects_to_process(REMOTE_HOST, listOk, sshOk)
         IN  /\ last' = [NoEvent EXCEPT
                           !.op = "discover", !.idx = last.idx + 1,
                           !.ret = IF ~bidsLocal THEN (IF sshOk THEN "remote" ELSE "ssh_error")
                                   ELSE IF listOk THEN "local" ELSE "oserror",
                           !.subjects = subjects]
             /\ sharedOut' = [x \in Items |->
                                IF \E k \in 1..Len(subjects) : subjects[k] = x
                                THEN "dir" ELSE sharedOut[x]]
    /\ UNCHANGED << bidsLocal, listing, entryKind, inputs, now, outputVars, submitVars, jobVars >>

\* one call of get_subjects_to_process, as submit mode makes it; idx counts
\* the calls
Discover ==
    /\ last.op \in {"none", "discover"}
    /\ last.idx < MaxCalls
    /\ \E listOk \in BOOLEAN, sshOk \in BOOLEAN :
         last' = [NoEvent EXCEPT
                    !.op = "discover", !.idx = last.idx + 1,
                    !.ret = IF ~bidsLocal THEN (IF sshOk THEN "remote" ELSE "ssh_error")
                            ELSE IF listOk THEN "local" ELSE "oserror",
                    !.subjects = get_subjects_to_process(REMOTE_HOST, listOk, sshOk)]
    /\ UNCHANGED << catalogVars, now, outputVars, submitVars, jobVars >>

NextDiscovery == Discover

SpecDiscovery == InitDiscovery /\ [][NextDiscovery]_vars

-----------------------------------------------------------------------------
(* Properties.                                                             *)

\* every array element of run r has reached a terminal state
AllTerminal(r) == \A i \in 1..runs[r].n : Terminal(elem[r][i].pc)

\* the subjects a run's work-list file holds
WorkList(r) == ReadSubjects(listFile[runs[r].ts].lines)

\* the report job of run r has exited
ReportExited(r) == report[r].pc \in {"ok", "failed"}

\* C1: after any worker invocation with a remote host configured (success,
\* missing input, stage failure or termination by the scheduler) the
\* subject's temp_BIDS directory does not exist.
C1_StagingReleased ==
    (REMOTE_HOST # "" /\ last.op = "worker" /\ last.item # NoItem) => ~tempDir[last.item]

\* C2: a worker invocation writes <subject>.done only if it ran all six
\* stages to success; an invocation that stops at the input check or at a
\* failing stage writes no marker.
C2_MarkerOnlyAfterAllStages ==
    [][ /\ \A x \in Items :
             (markers'[x] # markers[x] /\ markers'[x] # NoMarker)
                => /\ last'.op = "worker"
                   /\ last'.item = x
                   /\ last'.ret = "success"
                   /\ last'.stages = Stages
        /\ (last'.op = "worker" /\ last'.ret \in {"missing", "stage"})
              => (markers' = markers /\ ~last'.marked) ]_vars

\* a run in which one worker failed at the third stage and left no marker
\* while the other subject's marker is there
C2_Witness ==
    /\ last.op = "worker"
    /\ last.ret = "stage"
    /\ Len(last.stages) = 3
    /\ markers[last.item] = NoMarker
    /\ \E x \in Items : markers[x] # NoMarker /\ produced[x]

\* C3: once all array elements of a submitted run have terminated, the
\* report job runs on the work list, writes the manifest and exits 0;
\* stated on the report job's exit.
C3_ReportWritesManifest ==
    \A r \in Runs : ReportExited(r) => (report[r].pc = "ok" /\ manifest.exists)

\* C4: the manifest report mode writes lists exactly the work-list subjects
\* that have a marker at aggregation time, at most N of them.
C4_ManifestListsMarked ==
    \A r \in Runs :
        (ReportExited(r) /\ last.op = "report" /\ last.run = r)
           => /\ manifest.exists
              /\ manifest.subjects = report[r].successful
              /\ Len(manifest.subjects) <= runs[r].n

\* C5: after report mode has run for subjects_to_process_<ts>.txt, the
\* status directory, the work-list file and both descriptors of that
\* timestamp no longer exist, whatever subset of subjects has a marker.
C5_ArtifactsPurged ==
    \A r \in Runs :
        ReportExited(r)
           => /\ ~statusDir
              /\ ~listFile[report[r].ts].exists
              /\ ~arrayScript[report[r].ts].exists
              /\ ~reportScript[report[r].ts].exists

\* C6: a report invocation that does not write the manifest leaves every
\* marker in place and exits nonzero; the status directory is removed only
\* by an invocation that has written the manifest.
C6_NoPurgeWithoutManifest ==
    [][ /\ (last'.op = "report" /\ ~last'.wrote)
              => (markers' = markers /\ statusDir' = statusDir /\ last'.exit # 0)
        /\ (statusDir /\ ~statusDir') => (last'.op = "report" /\ last'.wrote) ]_vars

\* a report invocation that wrote no manifest, exited 1 and left a marker
C6_Witness ==
    /\ last.op = "report"
    /\ ~last.wrote
    /\ last.exit = 1
    /\ statusDir
    /\ \E x \in Items : markers[x] # NoMarker

\* C7: the report job reads the markers only when every array element of
\* its run is terminal, and the scheduler may start it as soon as they all
\* are, whether they succeeded or not.
C7_ReportAfterAllElements ==
    \A r \in Runs :
        /\ report[r].pc \in {"scanned", "ok", "failed"} => AllTerminal(r)
        /\ (report[r].pc = "pending" /\ AllTerminal(r))
              => DependencySatisfied(report[r].kind, report[r].dep)

\* the report job has read the markers of a run one of whose elements was
\* terminated and none of whose elements left a marker
C7_Witness ==
    \E r \in Runs :
        /\ report[r].pc = "scanned"
        /\ runs[r].n = 2
        /\ \E i \in Indices : elem[r][i].pc = "killed"
        /\ report[r].successful = <<>>

\* C8: when the array submission fails or yields no job identifier, the
\* report descriptor is neither written nor submitted; a report job exists
\* only after a successful array submission and depends on that array's
\* identifier.
C8_ReportOnlyAfterArray ==
    [][ /\ (last'.op = "submit" /\ last'.ret \in {"error", "empty"})
              => /\ \A k \in 1..Len(last'.effects) :
                       last'.effects[k] \notin {"write_report", "sbatch_report"}
                 /\ report'[last'.run] = NoReport
                 /\ reportScript' = reportScript
        /\ (last'.op = "submit" /\ Len(last'.effects) > 3)
              => /\ last'.ret = "ok"
                 /\ last'.effects[3] = "sbatch_array"
                 /\ runs'[last'.run].arrayId # 0
                 /\ reportScript'[now'].exists
                 /\ reportScript'[now'].job = runs'[last'.run].arrayId
        /\ \A r \in Runs :
              report'[r].pc # "none"
                 => (runs'[r].arrayId # 0 /\ report'[r].dep = runs'[r].arrayId) ]_vars

\* a submission of two subjects whose sbatch for the array failed
C8_Witness ==
    /\ last.op = "submit"
    /\ last.ret = "error"
    /\ Len(last.subjects) = 2
    /\ listFile[runs[last.run].ts].exists

\* C9: for a work list of N subjects the array descriptor declares indices
\* 1..N with cap max_parallel_jobs; the worker with index i processes the
\* i-th subject of the list and touches no other subject; an index outside
\* 1..N processes nothing and exits nonzero.
C9_IndexSelectsItem ==
    [][ /\ (last'.op = "submit" /\ last'.subjects # <<>>)
              => /\ arrayScript'[now'].lo = 1
                 /\ arrayScript'[now'].hi = Len(last'.subjects)
                 /\ arrayScript'[now'].cap = MAX_PARALLEL_JOBS
                 /\ ReadSubjects(listFile'[now'].lines) = last'.subjects
                 /\ \A i, j \in 1..Len(last'.subjects) :
                       i # j => last'.subjects[i] # last'.subjects[j]
                 /\ last'.ret # "error"
                       => \A i \in Indices :
                             elem'[last'.run][i].pc = "pending" <=> i <= Len(last'.subjects)
        /\ last'.op = "start"
              => /\ last'.idx \in 1..Len(WorkList(last'.run))
                 /\ last'.item = WorkList(last'.run)[last'.idx]
                 /\ elem'[last'.run][last'.idx].subject = last'.item
        /\ last'.op \in {"start", "worker"}
              => \A x \in Items \ {last'.item} :
                    /\ folder'[x] = folder[x]
                    /\ tempDir'[x] = tempDir[x]
                    /\ staged'[x] = staged[x]
                    /\ produced'[x] = produced[x]
                    /\ markers'[x] = markers[x]
        /\ last'.op = "rejected"
              => /\ last'.exit = 1
                 /\ << folder', tempDir', staged', produced', markers' >>
                      = << folder, tempDir, staged, produced, markers >> ]_vars

\* the element with index 2 of a two-subject list has started on the
\* second subject of the list while the first subject is untouched
C9_Witness ==
    /\ last.op = "start"
    /\ last.idx = 2
    /\ Len(WorkList(last.run)) = 2
    /\ last.item = WorkList(last.run)[2]
    /\ tempDir[last.item]
    /\ ~folder[WorkList(last.run)[1]]

\* the sub-* directories of the catalog
Candidates ==
    {e \in Entries : /\ \E k \in 1..Len(listing) : listing[k] = e
                     /\ StartsWithSub(e)
                     /\ entryKind[e] = "dir"}

\* the candidates with all five required inputs and no output yet
Eligible ==
    {c \in Candidates : /\ \A f \in RequiredInputs : inputs[c][f] # "absent"
                        /\ sharedOut[c] = "absent"}

\* C10: a local scan returns exactly the candidates that have all five
\* required inputs and whose output target does not exist, each once.
C10_LocalDiscoveryExact ==
    (last.op = "discover" /\ last.ret = "local")
       => /\ {last.subjects[k] : k \in 1..Len(last.subjects)} = Eligible
          /\ Len(last.subjects) = Cardinality(Eligible)

\* scenario A: X complete, Y a candidate that misses one input
C10_Witness ==
    /\ last.op = "discover"
    /\ last.ret = "local"
    /\ last.subjects = <<X>>
    /\ Y \in Candidates
    /\ inputs[Y] = Without("t1w")
    /\ sharedOut[Y] = "absent"

\* a discovery call that completed its scan of the catalog
ScanCompleted(e) == e.op = "discover" /\ e.ret \in {"local", "remote"}

Range(seq) == {seq[k] : k \in 1..Len(seq)}

\* what a submit-mode discovery started now returns when its scan completes
NextDiscovered == get_subjects_to_process(REMOTE_HOST, TRUE, TRUE)

\* C12: after a worker invocation that failed at the input check or at a
\* stage, the subject it worked on is returned again by a discovery of the
\* unchanged catalog: the failed invocation has left nothing at the path
\* discovery tests for prior completion.
C12_FailedItemRediscovered ==
    (last.op = "worker" /\ last.ret \in {"missing", "stage"})
       => /\ last.item \in Range(NextDiscovered)
          /\ ~SkipOutputExists(last.item)

\* a worker that failed at dtifit, the last stage, after creating the
\* subject's output folder, and whose subject discovery returns again
C12_Witness ==
    /\ last.op = "worker"
    /\ last.ret = "stage"
    /\ Len(last.stages) = Len(Stages)
    /\ folder[last.item]
    /\ last.item \in Range(NextDiscovered)

\* C13: a worker that writes the marker of a subject whose marker file is
\* already there exits without error and leaves one record, its own, in
\* that subject's marker file.
C13_MarkerWrittenOnce ==
    [][ (last'.op = "worker" /\ last'.marked /\ markers[last'.item] # NoMarker)
           => /\ last'.exit = 0
              /\ statusDir'
              /\ markers'[last'.item] = <<last'.run, last'.idx>> ]_vars

\* the first run's report job has seen X's marker, and a worker of the
\* second run has written X's marker again
C13_Witness ==
    /\ report[1].successful = <<X>>
    /\ last.op = "worker"
    /\ last.run = 2
    /\ last.marked
    /\ last.item = X
    /\ markers[X] = <<2, 1>>

\* C14: a worker invocation for one subject (its start, its run to the end
\* or its termination) leaves every other subject's output folder, staging
\* directory, staged files, final output and marker as they were, whatever
\* the other subject's worker is doing at that time.
C14_WorkersDisjoint ==
    [][ \A r \in Runs, i \in Indices :
           (elem'[r][i] # elem[r][i] /\ elem'[r][i].subject # NoItem)
              => \A x \in Items \ {elem'[r][i].subject} :
                    /\ folder'[x] = folder[x]
                    /\ tempDir'[x] = tempDir[x]
                    /\ staged'[x] = staged[x]
                    /\ produced'[x] = produced[x]
                    /\ markers'[x] = markers[x] ]_vars

\* one subject's worker has just failed at a stage while the other
\* subject's worker is between its staging and its stages, all its inputs
\* still staged
C14_Witness ==
    /\ last.op = "worker"
    /\ last.ret = "stage"
    /\ \E i \in Indices :
          /\ elem[last.run][i].pc = "running"
          /\ elem[last.run][i].subject # last.item
          /\ tempDir[elem[last.run][i].subject]
          /\ staged[elem[last.run][i].subject] = StagedInputs

\* C15: a call of ensure_remote_file with force unset for a file that is
\* there locally makes no remote copy and leaves the file; a call with
\* force set makes a remote copy whether or not the file is there; a call
\* for a file that is not there makes a remote copy for either value of
\* force.
C15_FetchOnlyWhenNeeded ==
    [][ last'.op = "fetch"
           => LET present == last'.file \in staged[X]
              IN  /\ (~last'.force /\ present)
                        => (last'.effects = <<>> /\ staged' = staged)
                  /\ last'.force => last'.effects = <<"scp">>
                  /\ ~present => last'.effects = <<"scp">> ]_vars

\* the second of two calls, made with force unset for a file that is
\* staged, made no copy
C15_Witness ==
    /\ last.op = "fetch"
    /\ last.idx = 2
    /\ ~last.force
    /\ last.effects = <<>>
    /\ last.file \in staged[X]

C17_DiscoveryFailureExitsNonzero ==
    (last.op = "submit" /\ last.scan \in {"oserror", "ssh_error"})
       => /\ last.effects = <<>>
          /\ runs[last.run].arrayId = 0
          /\ last.exit # 0

\* C18: an invocation that ends in a configuration error (worker or report
\* mode without a work-list path, worker mode without an index) exits
\* nonzero and has created, changed and removed nothing.
C18_ConfigErrorNoEffects ==
    [][ (last'.op \in {"rejected", "rejected_report"} /\ last'.ret = "config")
           => /\ last'.exit # 0
              /\ outputVars' = outputVars
              /\ submitVars' = submitVars
              /\ catalogVars' = catalogVars ]_vars

\* C19: the stages a worker invocation has invoked are an initial part of
\* prepare_topup, topup, prepare_eddy, eddy, t1_mask, dtifit in that order;
\* every stage before the last one invoked had its inputs and returned; when
\* a stage failed it is the last one invoked; a successful invocation has
\* invoked all six.
C19_StagesInOrderFailFast ==
    [][ last'.op = "worker" /\ last'.ret \in {"success", "stage"}
           => /\ Len(last'.stages) \in 1..Len(Stages)
              /\ last'.stages = SubSeq(Stages, 1, Len(last'.stages))
              /\ \A k \in 1..(Len(last'.stages) - 1) :
                    /\ StageReads(k) \subseteq staged[last'.item]
                    /\ k # last'.failed
              /\ last'.ret = "stage" => last'.failed = Len(last'.stages)
              /\ last'.ret = "success" => (last'.failed = 0 /\ last'.stages = Stages) ]_vars

\* a worker whose staging lacked the T1w image has invoked the first five
\* stages, t1_mask failed, and dtifit was not invoked
C19_Witness ==
    /\ last.op = "worker"
    /\ last.ret = "stage"
    /\ last.failed = 5
    /\ last.stages = <<"prepare_topup", "topup", "prepare_eddy", "eddy", "t1_mask">>
    /\ ~produced[last.item]

\* C20: the value process_subject returns tells success from failure and, for
\* a failure, the stage that failed: two worker runs that failed at
\* different stages have returned different values.
C20_ResultIdentifiesStage ==
    [][ /\ (last'.op = "worker" /\ last'.ret \in {"success", "missing", "stage"})
              => (last'.result = "True" <=> last'.ret = "success")
        /\ ( /\ last.op = "worker" /\ last.ret = "stage"
             /\ last'.op = "worker" /\ last'.ret = "stage"
             /\ last.failed # last'.failed )
              => last'.result # last.result ]_vars

\* C21: once a subject's marker file exists, a later worker invocation for
\* that subject leaves the record in it as it is.
C21_MarkerCreateOnly ==
    [][ \A x \in Items :
           (markers[x] # NoMarker /\ last'.op = "worker" /\ last'.item = x)
              => markers'[x] = markers[x] ]_vars

\* C22: for one catalog and output root the local scan and the remote scan
\* put every candidate in the same class (eligible, output exists, some
\* inputs missing, all inputs missing) and return the same list.
C22_ScansAgree ==
    last.op = "discover"
       => /\ \A c \in Candidates : LocalClass(c) = RemoteLine(c)[1]
          /\ ScanLocal(LocalCandidates, <<>>) = get_subjects_from_remote(TRUE)

\* C23 as claimed: a worker runs no stage and fails when none of the
\* subject's required inputs is at its staged path, and invokes the first
\* stage when at least one of them is.
C23_ChecksAnyRequiredInput ==
    [][ (last'.op = "worker" /\ last'.ret \in {"success", "missing", "stage"})
           => LET present == RequiredInputs \cap staged[last'.item]
              IN  /\ present = {} => (last'.ret = "missing" /\ last'.stages = <<>>)
                  /\ present # {} => last'.stages # <<>> ]_vars

\* C23 amended: a worker runs no stage and fails when the AP DWI image is not
\* at its staged path, whatever else is staged, and invokes the first stage
\* when the AP DWI image is there.
C23_ChecksKeyInput ==
    [][ (last'.op = "worker" /\ last'.ret \in {"success", "missing", "stage"})
           => /\ "dwi_ap" \notin staged[last'.item]
                    => /\ last'.ret = "missing"
                       /\ last'.stages = <<>>
                       /\ last'.result = "False"
              /\ "dwi_ap" \in staged[last'.item]
                    => /\ last'.stages # <<>>
                       /\ last'.stages[1] = Stages[1] ]_vars

\* a worker whose copy of the AP DWI image failed has stopped at the input
\* check without invoking a stage, the image being in the catalog
C23_Witness ==
    /\ last.op = "worker"
    /\ last.ret = "missing"
    /\ last.stages = <<>>
    /\ inputs[last.item]["dwi_ap"] = "file"
    /\ inputs[last.item]["t1w"] = "file"
    /\ ~tempDir[last.item]

\* C24: the work-list file and the descriptors a submit-mode run writes have
\* names no other run has written to: none of them exists when the run
\* writes it.
C24_RunArtifactsDistinct ==
    [][ (last'.op = "submit" /\ last'.subjects # <<>>)
           => /\ ~listFile[now'].exists
              /\ ~arrayScript[now'].exists
              /\ Len(last'.effects) > 3 => ~reportScript[now'].exists ]_vars

\* C25: while a worker invocation is between its staging and its exit, no
\* step of another worker invocation removes or changes the staging
\* directory and the staged files of its subject.
C25_StagingOwnedByInvocation ==
    [][ \A r, q \in Runs, i, j \in Indices :
           ( /\ <<r, i>> # <<q, j>>
             /\ elem[q][j].pc = "running"
             /\ elem'[q][j] = elem[q][j]
             /\ elem'[r][i] # elem[r][i] )
              => /\ tempDir'[elem[q][j].subject] = tempDir[elem[q][j].subject]
                 /\ staged'[elem[q][j].subject] = staged[elem[q][j].subject] ]_vars

\* C26: a subject whose final output a worker has produced is not returned
\* by a later submit-mode discovery.
C26_FinishedNotRediscovered ==
    \A x \in Items : produced[x] => x \notin Range(NextDiscovered)

\* C28: every input a worker stages for the subject it was handed by
\* discovery is in the catalog, so that no stage of that worker fails for
\* an input that the catalog lacks.
C28_StagedInputsVerified ==
    /\ (last.op \in {"start", "worker"} /\ last.item # NoItem)
          => \A f \in StagedInputs : PathExists(inputs[last.item][f])
    /\ (last.op = "worker" /\ last.ret = "stage")
          => \A f \in StageReads(last.failed) : PathExists(inputs[last.item][f])

====
